---- MODULE Spec2Model ----
(***************************************************************************)
(* Model of old-scripts/collate_and_migrate_data.py: the collation and     *)
(* load pipeline (DataCollator) and its background rejection recorder      *)
(* (ErrorLogger).                                                          *)
(*                                                                         *)
(* Text values are sequences of one-character strings, so that str(),      *)
(* strip() and lower() are computed and not assumed.  A missing CSV cell   *)
(* (pandas NaN) is the value NaN, Python's None is the value None.         *)
(***************************************************************************)
EXTENDS Integers, Sequences, FiniteSets, TLC

\* ------------------------------------------------------------------ bounds
\* Largest number of data rows in the input file.
MaxRows == 3
\* batch_size of collate_and_migrate (a tunable; small here so that a run
\* has several chunks).
BatchSize == 2
\* Largest number of locations in a Location cell.
MaxTokens == 2

\* ------------------------------------------------------------ text values
NaN == <<"NaN">>
None == <<"None">>

Whitespace == {" "}

RECURSIVE LStrip(_)
LStrip(s) == IF s # <<>> /\ Head(s) \in Whitespace THEN LStrip(Tail(s)) ELSE s

RECURSIVE RStrip(_)
RStrip(s) ==
    IF s # <<>> /\ s[Len(s)] \in Whitespace
    THEN RStrip(SubSeq(s, 1, Len(s) - 1))
    ELSE s

\* str.strip()
Strip(s) == RStrip(LStrip(s))

LowerChar(c) ==
    CASE c = "X" -> "x"
      [] c = "Y" -> "y"
      [] c = "Z" -> "z"
      [] c = "P" -> "p"
      [] c = "N" -> "n"
      [] c = "W" -> "w"
      [] c = "Q" -> "q"
      [] OTHER -> c

\* str.lower()
Lower(s) == [i \in 1..Len(s) |-> LowerChar(s[i])]

\* str(value) of a CSV cell read with dtype=str: a missing cell is the float
\* NaN, whose str() is the text 'nan'.
Str(v) == IF v = NaN THEN <<"n", "a", "n">> ELSE v

\* pd.isna(value)
IsNa(v) == v = NaN \/ v = None

\* ---------------------------------------------------------- generic folds
Range(s) == {s[i] : i \in 1..Len(s)}

Min(a, b) == IF a < b THEN a ELSE b

\* ------------------------------------------------------ reference sources
\* original_all_products: the rows the metadata query can return.
original_all_products ==
    << [product_id |-> <<"P", "1">>, name |-> <<"N", "1">>],
       [product_id |-> <<"P", "3">>, name |-> <<"N", "3">>],
       [product_id |-> <<"n", "a", "n">>, name |-> <<"N", "n">>] >>

\* distributor_master_list: the rows the price query can return.
\* The code 'W2' is the item_code of one record and the original_item_code
\* of another.
distributor_master_list ==
    << [item_code |-> <<"x", "1">>, original_item_code |-> <<"Y", "1">>,
        distributor |-> <<"D", "1">>, hsn_code |-> <<"3", "0">>],
       [item_code |-> <<"w", "2">>, original_item_code |-> None,
        distributor |-> <<"D", "2">>, hsn_code |-> <<"3", "1">>],
       [item_code |-> <<"Q", "7">>, original_item_code |-> <<"W", "2">>,
        distributor |-> <<"D", "3">>, hsn_code |-> <<"3", "2">>] >>

\* -------------------------------------------------------------- the input
\* A data row with an empty Location cell
CsvCell(p, c, i) ==
    [product_id |-> p, item_code |-> c, store_inventory |-> i, location |-> NaN]

\* The kinds of data row an input file is made of.
CsvRowKinds ==
    { CsvCell(<<"P", "1">>, <<"X", "1">>, <<"5">>),
      CsvCell(<<"P", "1">>, <<"Y", "1">>, NaN),
      CsvCell(<<"P", "1", " ">>, <<"X", "1">>, <<"5">>),
      CsvCell(<<"P", "2">>, <<"Z", "9">>, <<"5">>),
      CsvCell(<<"P", "3">>, <<"Z", "9">>, <<"5">>),
      CsvCell(<<" ">>, <<"X", "1">>, <<"5">>),
      CsvCell(NaN, <<"X", "1">>, <<"5">>),
      CsvCell(<<"P", "3">>, NaN, <<"5">>),
      CsvCell(<<"P", "3">>, <<"X", "1">>, <<"-", "1">>),
      CsvCell(<<"P", "3">>, <<"X", "1">>, <<"x">>) }

\* The catalogue table before the first run.
InitialCatalogues ==
    { <<>>,
      << [product_id |-> <<"P", "1">>, dist_item_code |-> <<"O", "1">>,
          name |-> <<"N", "1">>, inventory_quantity |-> 0,
          distributor |-> <<"D", "0">>, location |-> [none |-> TRUE, list |-> <<>>]] >> }

VARIABLES
    csv,                \* the rows of the input file, with their index
    catalogue,          \* the destination table: a sequence of records
    run,                \* 1 for the first process, 2 for a re-run
    pc,                 \* position of collate_and_migrate
    df,                 \* the dataframe being processed
    results,            \* the summary returned by collate_and_migrate
    connection,         \* main connection: "none", "open", "closed"
    erp_connection,     \* ERP connection: "none", "open", "closed"
    chunk_start,        \* loop variable of the chunk loop
    row_pos,            \* next row of df to validate (1-based position)
    metadata,           \* mapping returned by get_metadata_batch
    price_details,      \* mapping returned by get_price_details_batch
    valid_data,         \* accepted rows waiting for insert_batch
    validation_errors,  \* DataCollator.validation_errors
    skipped_no_metadata,
    skipped_no_pricing,
    insert_ok,          \* return value of the last insert_batch call
    error_queue,        \* ErrorLogger.error_queue
    stop_event,         \* ErrorLogger.stop_event
    wpc,                \* position of the worker thread _process_errors
    witem,              \* the record the worker has dequeued
    error_rows,         \* ErrorLogger.error_rows
    error_file,         \* lines of the rejection CSV; <<>> = no file yet
    validated,          \* history: indexes handed to validate_and_collate_row
    accepted,           \* history: indexes validate_and_collate_row accepted
    enqueued,           \* history: every record add_error has accepted
    lookup_failed,      \* history: a resolver query of the current chunk raised
    faulted             \* history: some store call of this or an earlier run failed

vars == << csv, catalogue, run, pc, df, results, connection, erp_connection,
           chunk_start, row_pos, metadata, price_details, valid_data,
           validation_errors, skipped_no_metadata, skipped_no_pricing,
           insert_ok, error_queue, stop_event, wpc, witem, error_rows,
           error_file, validated, accepted, enqueued, lookup_failed, faulted >>

\* ------------------------------------------------------------- resolvers
EmptyMap == <<>>

\* metadata[row['product_id']] = dict(row) for each fetched row, in order
RECURSIVE MetadataOf(_, _)
MetadataOf(rows, acc) ==
    IF rows = <<>> THEN acc
    ELSE MetadataOf(Tail(rows), (Head(rows).product_id :> Head(rows)) @@ acc)

\* The rows of original_all_products with product_id = ANY(product_ids)
MetadataQuery(product_ids) ==
    SelectSeq(original_all_products, LAMBDA r : r.product_id \in Range(product_ids))

\* get_metadata_batch, when the query succeeds
get_metadata_batch(product_ids) ==
    IF product_ids = <<>> THEN EmptyMap
    ELSE MetadataOf(MetadataQuery(product_ids), EmptyMap)

\* code_mapping[lowercase_code] = clean_code, a later code replacing an
\* earlier one with the same lowercase form
RECURSIVE CodeMapping(_, _)
CodeMapping(codes, acc) ==
    IF codes = <<>> THEN acc
    ELSE IF Strip(Head(codes)) # <<>>
         THEN CodeMapping(Tail(codes),
                  (Lower(Strip(Head(codes))) :> Strip(Head(codes))) @@ acc)
         ELSE CodeMapping(Tail(codes), acc)

\* The rows of distributor_master_list with LOWER(item_code) = ANY(codes) OR
\* LOWER(original_item_code) = ANY(codes)
PriceQuery(lowercase_codes) ==
    SelectSeq(distributor_master_list,
              LAMBDA r : \/ (r.item_code # None /\ Lower(r.item_code) \in lowercase_codes)
                         \/ (r.original_item_code # None
                             /\ Lower(r.original_item_code) \in lowercase_codes))

\* The dictionary stored for a matching row (its numeric fields are
\* converted with float() and play no part in any decision)
PriceEntry(row) ==
    [distributor |-> row.distributor, hsn_code |-> row.hsn_code]

\* The inner loop over ['item_code', 'original_item_code'] for one row
PriceOfRow(row, mapping, acc) ==
    LET put(field, a) ==
            IF field # None /\ field # <<>> /\ Lower(field) \in DOMAIN mapping
            THEN (mapping[Lower(field)] :> PriceEntry(row)) @@ a
            ELSE a
    IN  put(row.original_item_code, put(row.item_code, acc))

RECURSIVE PriceOf(_, _, _)
PriceOf(rows, mapping, acc) ==
    IF rows = <<>> THEN acc
    ELSE PriceOf(Tail(rows), mapping, PriceOfRow(Head(rows), mapping, acc))

\* cursor.fetchall() of a query without ORDER BY: the selected rows in any
\* order
fetchall(rows) ==
    { [i \in 1..Len(rows) |-> rows[p[i]]] : p \in Permutations(1..Len(rows)) }

\* The mappings get_price_details_batch can return when the query succeeds,
\* one for each order of the fetched rows
get_price_details_batch(item_codes) ==
    LET mapping == CodeMapping(item_codes, EmptyMap)
    IN  IF item_codes = <<>> \/ DOMAIN mapping = {} THEN { EmptyMap }
        ELSE { PriceOf(fetched, mapping, EmptyMap) :
                   fetched \in fetchall(PriceQuery(DOMAIN mapping)) }

\* --------------------------------------------------- inventory quantity
Digits == {"0", "1", "2", "3", "4", "5", "6", "7", "8", "9"}

DigitValue(c) ==
    CASE c = "0" -> 0 [] c = "1" -> 1 [] c = "2" -> 2 [] c = "3" -> 3
      [] c = "4" -> 4 [] c = "5" -> 5 [] c = "6" -> 6 [] c = "7" -> 7
      [] c = "8" -> 8 [] c = "9" -> 9

RECURSIVE DigitsValue(_, _)
DigitsValue(s, acc) ==
    IF s = <<>> THEN acc ELSE DigitsValue(Tail(s), 10 * acc + DigitValue(Head(s)))

\* float(text), for an optional sign followed by digits with at most one
\* decimal point or by 'inf' or 'infinity': [ok, neg, whole, inf], whole
\* being the integer part of a finite magnitude (ok = FALSE: ValueError)
NotAFloat == [ok |-> FALSE, neg |-> FALSE, whole |-> 0, inf |-> FALSE]

Infinite(neg) == [ok |-> TRUE, neg |-> neg, whole |-> 0, inf |-> TRUE]

ParseParts(whole, frac, neg) ==
    IF Len(whole) + Len(frac) > 0 /\ Range(whole) \cup Range(frac) \subseteq Digits
    THEN [ok |-> TRUE, neg |-> neg, whole |-> DigitsValue(whole, 0), inf |-> FALSE]
    ELSE NotAFloat

ParseAt(body, neg, dots) ==
    IF Cardinality(dots) > 1 THEN NotAFloat
    ELSE IF dots = {} THEN ParseParts(body, <<>>, neg)
    ELSE ParseParts(SubSeq(body, 1, (CHOOSE i \in dots : TRUE) - 1),
                    SubSeq(body, (CHOOSE i \in dots : TRUE) + 1, Len(body)), neg)

ParseUnsigned(body, neg) ==
    IF body \in { <<"i", "n", "f">>, <<"i", "n", "f", "i", "n", "i", "t", "y">> }
    THEN Infinite(neg)
    ELSE ParseAt(body, neg, {i \in 1..Len(body) : body[i] = "."})

ParseSigned(t) ==
    IF t # <<>> /\ Head(t) \in {"-", "+"}
    THEN ParseUnsigned(Tail(t), Head(t) = "-")
    ELSE ParseUnsigned(t, FALSE)

ParseFloat(text) == ParseSigned(Strip(text))

\* What _validate_inventory_quantity hands back: the quantity and the errors
\* it appended, or raised = TRUE when an exception leaves it
Quantity(qty, errors) == [qty |-> qty, errors |-> errors, raised |-> FALSE]

\* int(float(...)) and the sign test of _validate_inventory_quantity.  int()
\* of an infinite float raises OverflowError, which the function's
\* 'except (ValueError, TypeError)' does not catch; int() truncates
\* towards zero
InventoryOf(f) ==
    IF ~f.ok THEN Quantity(0, <<"Invalid inventory quantity format">>)
    ELSE IF f.inf THEN [qty |-> 0, errors |-> <<>>, raised |-> TRUE]
    ELSE IF f.neg /\ f.whole > 0
    THEN Quantity(0, <<"Inventory quantity cannot be negative">>)
    ELSE Quantity(f.whole, <<>>)

\* _validate_inventory_quantity: the quantity and the errors it appends
validate_inventory_quantity(value) ==
    IF IsNa(value) \/ value = <<>> \/ Strip(Str(value)) = <<>>
    THEN Quantity(0, <<>>)
    ELSE InventoryOf(ParseFloat(Str(value)))

\* ------------------------------------------------------- location array
\* A strip(chars) that removes nothing (fault-injection variant)
strip_chars_skipped(s, chars) == s

\* str.strip(chars): leading and trailing characters of the set removed
RECURSIVE LStripChars(_, _)
LStripChars(s, chars) ==
    IF s # <<>> /\ Head(s) \in chars THEN LStripChars(Tail(s), chars) ELSE s

RECURSIVE RStripChars(_, _)
RStripChars(s, chars) ==
    IF s # <<>> /\ s[Len(s)] \in chars
    THEN RStripChars(SubSeq(s, 1, Len(s) - 1), chars)
    ELSE s

StripChars(s, chars) == RStripChars(LStripChars(s, chars), chars)

\* str.split(sep): the pieces of s between the separators, in order
RECURSIVE SplitFrom(_, _, _, _)
SplitFrom(s, sep, piece, acc) ==
    IF s = <<>> THEN Append(acc, piece)
    ELSE IF Head(s) = sep THEN SplitFrom(Tail(s), sep, <<>>, Append(acc, piece))
    ELSE SplitFrom(Tail(s), sep, Append(piece, Head(s)), acc)

Split(s, sep) == SplitFrom(s, sep, <<>>, <<>>)

\* [x.strip() for x in items if x and x.strip()]
StrippedNonEmpty(items) ==
    LET kept == SelectSeq(items, LAMBDA x : Strip(x) # <<>>)
    IN  [i \in 1..Len(kept) |-> Strip(kept[i])]

\* json.loads of a text that starts with '[' and ends with ']', for texts
\* made of letters, blanks, commas, brackets, braces and double quotes (no
\* backslash, digit or nested array): [ok, list], ok = FALSE standing for
\* JSONDecodeError.  The array holds double-quoted strings separated by
\* commas, with optional blanks around them, or nothing.
JsonError == [ok |-> FALSE, list |-> <<>>]

Quote == "\""

\* The position of the first double quote of t after position 1, or 0
ClosingQuote(t) ==
    IF \E j \in 2..Len(t) : t[j] = Quote
    THEN CHOOSE j \in 2..Len(t) : t[j] = Quote /\ \A k \in 2..(j - 1) : t[k] # Quote
    ELSE 0

RECURSIVE JsonItems(_, _)
RECURSIVE JsonAfterItem(_, _)
\* What follows a string of the array: the end, or a comma and another string
JsonAfterItem(rest, acc) ==
    IF rest = <<>> THEN [ok |-> TRUE, list |-> acc]
    ELSE IF Head(rest) = "," THEN JsonItems(LStrip(Tail(rest)), acc)
    ELSE JsonError

JsonItemAt(t, close, acc) ==
    IF close = 0 THEN JsonError
    ELSE JsonAfterItem(LStrip(SubSeq(t, close + 1, Len(t))),
                       Append(acc, SubSeq(t, 2, close - 1)))

\* t: what is left of the array's inside, a string expected at its start
JsonItems(t, acc) ==
    IF t = <<>> \/ Head(t) # Quote THEN JsonError ELSE JsonItemAt(t, ClosingQuote(t), acc)

JsonInside(inside) ==
    IF inside = <<>> THEN [ok |-> TRUE, list |-> <<>>] ELSE JsonItems(inside, <<>>)

json_loads(text) == JsonInside(Strip(SubSeq(text, 2, Len(text) - 1)))

\* The value of the location column: None, or a list of texts
NoLocation == [none |-> TRUE, list |-> <<>>]

LocationList(list) == [none |-> FALSE, list |-> list]

\* 'if ',' in value: ... else: [value.strip()] if value.strip() else None'
LocationFromText(value) ==
    IF "," \in Range(value) THEN LocationList(StrippedNonEmpty(Split(value, ",")))
    ELSE IF Strip(value) # <<>> THEN LocationList(<< Strip(value) >>)
    ELSE NoLocation

\* The JSON branch: a decoded list is returned, a JSONDecodeError is passed over
LocationFromJson(value, decoded) ==
    IF decoded.ok THEN LocationList(StrippedNonEmpty(decoded.list))
    ELSE LocationFromText(value)

\* value: the text with blanks and then curly braces stripped from its ends
LocationOfStripped(value) ==
    IF value # <<>> /\ Head(value) = "[" /\ value[Len(value)] = "]"
    THEN LocationFromJson(value, json_loads(value))
    ELSE LocationFromText(value)

\* _validate_location_array, for a missing cell or a text (it appends no error
\* for these: every exception of its string branch is caught inside)
validate_location_array(value) ==
    IF IsNa(value) \/ value = <<>> \/ value = <<"n", "a", "n">> THEN NoLocation
    ELSE LocationOfStripped(StripChars(Strip(value), {"{", "}"}))

\* -------------------------------------------------------------- recorder
\* The error types and the status add_error is given
MissingMetadata == <<"Missing Metadata">>
MissingPriceDetails == <<"Missing Price Details">>
Skipped == <<"Skipped">>

\* datetime.now() formatted to the second: one value stands for every time
Now == <<"now">>

\* The error_details texts of validate_and_collate_row
ErrorDetails(product_id, item_code, error_type) ==
    IF error_type = MissingMetadata
    THEN <<"Product metadata not found in original_all_products for product_id: ">>
             \o product_id
    ELSE <<"Price details not found in distributor_master_list for item_code: ">>
             \o item_code

\* The dictionary add_error puts on the queue
RejectionRecord(product_id, item_code, name, error_type) ==
    [product_id |-> product_id, item_code |-> item_code, name |-> name,
     error_timestamp |-> Now, error_type |-> error_type,
     error_details |-> ErrorDetails(product_id, item_code, error_type),
     status |-> Skipped]

\* A header that puts the error columns before the name (fault-injection
\* variant)
header_reordered ==
    << <<"product_id">>, <<"item_code">>, <<"error_type">>, <<"error_details">>,
       <<"name">>, <<"error_timestamp">>, <<"status">> >>

\* The column order of _write_to_csv
Header == << <<"product_id">>, <<"item_code">>, <<"name">>, <<"error_timestamp">>,
             <<"error_type">>, <<"error_details">>, <<"status">> >>

CsvLine(rec) == << rec.product_id, rec.item_code, rec.name, rec.error_timestamp,
                   rec.error_type, rec.error_details, rec.status >>

\* A write that opens the file with mode 'w' every time (fault-injection
\* variant)
write_to_csv_truncating(file, rec) == << Header, CsvLine(rec) >>

\* _write_to_csv: the file after one more record; the first write creates
\* the file with its header
write_to_csv(file, rec) ==
    IF file = <<>> THEN << Header, CsvLine(rec) >> ELSE Append(file, CsvLine(rec))

RECURSIVE write_all(_, _)
write_all(file, recs) ==
    IF recs = <<>> THEN file ELSE write_all(write_to_csv(file, Head(recs)), Tail(recs))

\* ---------------------------------------------------- validate_and_collate_row
\* A rejection that hands nothing to add_error (fault-injection variant)
rejected_without_record(errors, data, records, no_metadata, no_pricing) ==
    [ok |-> FALSE, errors |-> errors, data |-> data, records |-> <<>>,
     no_metadata |-> no_metadata, no_pricing |-> no_pricing]

Rejected(errors, data, records, no_metadata, no_pricing) ==
    [ok |-> FALSE, errors |-> errors, data |-> data, records |-> records,
     no_metadata |-> no_metadata, no_pricing |-> no_pricing]

\* The merged record (descriptive fields other than name are copied the same way)
CollatedData(product_id, item_code, product_metadata, pricing_data, qty, location) ==
    [product_id |-> product_id, dist_item_code |-> item_code,
     name |-> product_metadata.name, inventory_quantity |-> qty,
     distributor |-> pricing_data.distributor, location |-> location]

\* {}: the default of price_details.get(item_code, {}), whose every field
\* reads as None
NoPricing == [distributor |-> None, hsn_code |-> None]

\* price_details.get(item_code, {})
pricing_get(prices, item_code) ==
    IF item_code \in DOMAIN prices THEN prices[item_code] ELSE NoPricing

\* A validator that never reports pricing as missing (fault-injection variant)
missing_pricing_never(pricing_data) == FALSE

\* 'if not pricing_data'
missing_pricing(pricing_data) == pricing_data = NoPricing

Accepted(data) ==
    [ok |-> TRUE, errors |-> <<>>, data |-> data, records |-> <<>>,
     no_metadata |-> 0, no_pricing |-> 0]

\* The end of validate_and_collate_row: 'if errors: return False, ...'
CollatedOrErrors(errors, data) ==
    IF errors # <<>> THEN Rejected(errors, data, <<>>, 0, 0) ELSE Accepted(data)

\* validate_and_collate_row once both lookups have succeeded; an exception
\* out of _validate_inventory_quantity is caught by its 'except Exception'
Collate(product_id, item_code, product_metadata, pricing_data, inv, location) ==
    IF inv.raised
    THEN Rejected(<<"Unexpected error collating row">>, <<>>, <<>>, 0, 0)
    ELSE CollatedOrErrors(inv.errors,
                          CollatedData(product_id, item_code, product_metadata,
                                       pricing_data, inv.qty, location))

\* A validator that looks up the price before the metadata (fault-injection
\* variant)
collate_row_pricing_first(product_id, item_code, store_inventory, location, meta, prices) ==
    IF product_id = <<>>
    THEN Rejected(<<"Product ID is required">>, <<>>, <<>>, 0, 0)
    ELSE IF item_code = <<>>
    THEN Rejected(<<"Item code is required">>, <<>>, <<>>, 0, 0)
    ELSE IF missing_pricing(pricing_get(prices, item_code))
    THEN Rejected(<<"Missing pricing data">>, <<>>,
                  << RejectionRecord(product_id, item_code,
                                     IF product_id \in DOMAIN meta
                                     THEN meta[product_id].name ELSE <<>>,
                                     MissingPriceDetails) >>,
                  0, 1)
    ELSE IF product_id \notin DOMAIN meta
    THEN Rejected(<<"Missing metadata">>, <<>>,
                  << RejectionRecord(product_id, item_code, <<>>, MissingMetadata) >>,
                  1, 0)
    ELSE Collate(product_id, item_code, meta[product_id],
                 pricing_get(prices, item_code),
                 validate_inventory_quantity(store_inventory),
                 validate_location_array(location))

\* validate_and_collate_row from the stripped identifiers on
CollateRow(product_id, item_code, store_inventory, location, meta, prices) ==
    IF product_id = <<>>
    THEN Rejected(<<"Product ID is required">>, <<>>, <<>>, 0, 0)
    ELSE IF item_code = <<>>
    THEN Rejected(<<"Item code is required">>, <<>>, <<>>, 0, 0)
    ELSE IF product_id \notin DOMAIN meta
    THEN Rejected(<<"Missing metadata">>, <<>>,
                  << RejectionRecord(product_id, item_code, <<>>, MissingMetadata) >>,
                  1, 0)
    ELSE IF missing_pricing(pricing_get(prices, item_code))
    THEN Rejected(<<"Missing pricing data">>, <<>>,
                  << RejectionRecord(product_id, item_code, meta[product_id].name,
                                     MissingPriceDetails) >>,
                  0, 1)
    ELSE Collate(product_id, item_code, meta[product_id],
                 pricing_get(prices, item_code),
                 validate_inventory_quantity(store_inventory),
                 validate_location_array(location))

\* The result of validate_and_collate_row: accepted or not, its errors and
\* data, the records it hands to add_error and its counter increments
validate_and_collate_row(row, meta, prices) ==
    CollateRow(Strip(Str(row.product_id)), Strip(Str(row.item_code)),
               row.store_inventory, row.location, meta, prices)

\* ------------------------------------------------- duplicates and existing
\* df.duplicated(subset=['product_id'], keep=False): every row whose
\* product_id occurs more than once (missing values compare equal)
check_duplicate_products(d) ==
    SelectSeq(d, LAMBDA r : \E o \in Range(d) :
                                o.index # r.index /\ o.product_id = r.product_id)

\* df.drop_duplicates(subset=['product_id'], keep='last') (fault-injection variant)
drop_duplicates_keep_last(d) ==
    SelectSeq(d, LAMBDA r : ~ \E o \in Range(d) :
                                o.index > r.index /\ o.product_id = r.product_id)

\* df.drop_duplicates(subset=['product_id'], keep='first')
drop_duplicates(d) ==
    SelectSeq(d, LAMBDA r : ~ \E o \in Range(d) :
                                o.index < r.index /\ o.product_id = r.product_id)

\* SELECT product_id FROM catalogue WHERE product_id IN (...): one entry per
\* matching catalogue row; a missing value matches nothing
check_existing_products(product_ids) ==
    LET hits == SelectSeq(catalogue, LAMBDA c : c.product_id \in Range(product_ids))
    IN  [i \in 1..Len(hits) |-> hits[i].product_id]

\* ----------------------------------------------------------- the process
InitialResults ==
    [total_rows |-> 0, successful_inserts |-> 0, validation_failures |-> 0,
     duplicate_failures |-> 0, existing_products |-> 0, errors |-> <<>>]

\* The input files: up to MaxRows rows, each with its dataframe index
InputFiles ==
    UNION { { [i \in 1..n |-> [index |-> i - 1] @@ f[i]] : f \in [1..n -> CsvRowKinds] }
            : n \in 0..MaxRows }

Init ==
    /\ csv \in InputFiles
    /\ catalogue \in InitialCatalogues
    /\ run = 1
    /\ pc = "load"
    /\ df = <<>>
    /\ results = InitialResults
    /\ connection = "none"
    /\ erp_connection = "none"
    /\ chunk_start = 0
    /\ row_pos = 0
    /\ metadata = EmptyMap
    /\ price_details = EmptyMap
    /\ valid_data = <<>>
    /\ validation_errors = <<>>
    /\ skipped_no_metadata = 0
    /\ skipped_no_pricing = 0
    /\ insert_ok = "none"
    /\ error_queue = <<>>
    /\ stop_event = FALSE
    /\ wpc = "loop"
    /\ witem = <<>>
    /\ error_rows = <<>>
    /\ error_file = <<>>
    /\ validated = {}
    /\ accepted = {}
    /\ enqueued = <<>>
    /\ lookup_failed = FALSE
    /\ faulted = FALSE

collator_vars == << df, results, connection, erp_connection, chunk_start, row_pos,
                    metadata, price_details, valid_data, validation_errors,
                    skipped_no_metadata, skipped_no_pricing, insert_ok >>

history_vars == << validated, accepted, enqueued, lookup_failed >>

logger_vars == << error_queue, stop_event, wpc, witem, error_rows, error_file >>

\* A summary whose error list is left as it was (fault-injection variant)
with_error_dropped(res, message) == res

\* results['errors'].append(message)
WithError(res, message) == [res EXCEPT !.errors = Append(@, message)]

\* A disconnect_db that closes nothing (fault-injection variant)
left_as_it_is(c) == c

\* disconnect_db: a connection that was opened is closed
Disconnected(c) == IF c = "none" THEN "none" ELSE "closed"

\* load_csv, and the return of collate_and_migrate when it fails
LoadCsv ==
    /\ pc = "load"
    /\ \/ /\ df' = csv
          /\ results' = [results EXCEPT !.total_rows = Len(csv)]
          /\ pc' = "connect"
          /\ UNCHANGED faulted
       \/ /\ results' = WithError(results, "Failed to load CSV file")
          /\ pc' = "done"
          /\ faulted' = TRUE
          /\ UNCHANGED df
    /\ UNCHANGED << csv, catalogue, run, connection, erp_connection, chunk_start,
                    row_pos, metadata, price_details, valid_data, validation_errors,
                    skipped_no_metadata, skipped_no_pricing, insert_ok >>
    /\ UNCHANGED history_vars
    /\ UNCHANGED logger_vars

\* connect_db, and the return of collate_and_migrate when it fails: the main
\* connection is opened first, then the ERP connection
ConnectDb ==
    /\ pc = "connect"
    /\ \/ /\ connection' = "open"
          /\ erp_connection' = "open"
          /\ pc' = "duplicates"
          /\ UNCHANGED << results, faulted >>
       \/ /\ \E main_opened \in BOOLEAN :
                connection' = IF main_opened THEN Disconnected("open") ELSE "none"
          /\ erp_connection' = "none"
          /\ results' = WithError(results, "Failed to connect to database")
          /\ pc' = "done"
          /\ faulted' = TRUE
    /\ UNCHANGED << csv, catalogue, run, df, chunk_start, row_pos, metadata,
                    price_details, valid_data, validation_errors,
                    skipped_no_metadata, skipped_no_pricing, insert_ok >>
    /\ UNCHANGED history_vars
    /\ UNCHANGED logger_vars

\* The duplicate check and removal of collate_and_migrate
CheckDuplicates ==
    /\ pc = "duplicates"
    /\ LET duplicates == check_duplicate_products(df)
       IN  IF duplicates # <<>>
           THEN /\ results' = WithError(
                       [results EXCEPT !.duplicate_failures = Len(duplicates)],
                       "Found duplicate product IDs in CSV")
                /\ df' = drop_duplicates(df)
           ELSE UNCHANGED << results, df >>
    /\ pc' = "existing"
    /\ UNCHANGED << csv, catalogue, run, connection, erp_connection, chunk_start,
                    row_pos, metadata, price_details, valid_data, validation_errors,
                    skipped_no_metadata, skipped_no_pricing, insert_ok, faulted >>
    /\ UNCHANGED history_vars
    /\ UNCHANGED logger_vars

ProductIds(d) == [i \in 1..Len(d) |-> d[i].product_id]

\* Where the chunk loop goes for the chunk starting at start
LoopAt(start, d) == IF start < Len(d) THEN "metadata" ELSE "report"

\* The existing-product check and filter; a failed query yields []
CheckExisting ==
    /\ pc = "existing"
    /\ \E query_ok \in BOOLEAN :
          LET existing == IF query_ok THEN check_existing_products(ProductIds(df))
                          ELSE <<>>
              kept == SelectSeq(df, LAMBDA r : r.product_id \notin Range(existing))
          IN  /\ IF existing # <<>>
                 THEN /\ results' = [results EXCEPT !.existing_products = Len(existing)]
                      /\ df' = kept
                 ELSE UNCHANGED << results, df >>
              /\ faulted' = (faulted \/ ~query_ok)
    /\ chunk_start' = 0
    /\ pc' = LoopAt(0, df')
    /\ UNCHANGED << csv, catalogue, run, connection, erp_connection, row_pos,
                    metadata, price_details, valid_data, validation_errors,
                    skipped_no_metadata, skipped_no_pricing, insert_ok >>
    /\ UNCHANGED history_vars
    /\ UNCHANGED logger_vars

\* A resolver whose 'except' clause lets the error through its result
\* (fault-injection variant)
lookup_result_ignoring_error(query_ok, mapping) == mapping

\* The try/except of get_metadata_batch and of get_price_details_batch: the
\* mapping built from the fetched rows, or {} when the query raised
lookup_result(query_ok, mapping) == IF query_ok THEN mapping ELSE EmptyMap

\* A chunk that ends after its first row (fault-injection variant)
chunk_end_after_first_row == Min(chunk_start + 1, Len(df))

chunk_end == Min(chunk_start + BatchSize, Len(df))

df_chunk == SubSeq(df, chunk_start + 1, chunk_end)

product_ids_chunk == [i \in 1..Len(df_chunk) |-> Strip(Str(df_chunk[i].product_id))]

item_codes_chunk ==
    SelectSeq([i \in 1..Len(df_chunk) |-> Strip(Str(df_chunk[i].item_code))],
              LAMBDA code : code # <<>> /\ code # <<"n", "a", "n">>)

\* The metadata fetch of a chunk; a failed query yields {}
FetchMetadata ==
    /\ pc = "metadata"
    /\ \E query_ok \in BOOLEAN :
          /\ metadata' = lookup_result(query_ok, get_metadata_batch(product_ids_chunk))
          /\ lookup_failed' = ~query_ok
          /\ faulted' = (faulted \/ ~query_ok)
    /\ pc' = "prices"
    /\ UNCHANGED << csv, catalogue, run, df, results, connection, erp_connection,
                    chunk_start, row_pos, price_details, valid_data,
                    validation_errors, skipped_no_metadata, skipped_no_pricing,
                    insert_ok >>
    /\ UNCHANGED << validated, accepted, enqueued >>
    /\ UNCHANGED logger_vars

\* The price fetch of a chunk; a failed query yields {}
FetchPrices ==
    /\ pc = "prices"
    /\ \E query_ok \in BOOLEAN :
       \E mapping \in get_price_details_batch(item_codes_chunk) :
          /\ price_details' = lookup_result(query_ok, mapping)
          /\ lookup_failed' = (lookup_failed \/ ~query_ok)
          /\ faulted' = (faulted \/ ~query_ok)
    /\ row_pos' = chunk_start + 1
    /\ pc' = "validate"
    /\ UNCHANGED << csv, catalogue, run, df, results, connection, erp_connection,
                    chunk_start, metadata, valid_data, validation_errors,
                    skipped_no_metadata, skipped_no_pricing, insert_ok >>
    /\ UNCHANGED << validated, accepted, enqueued >>
    /\ UNCHANGED logger_vars

\* A queue that holds one record at most, so that put waits for the worker
\* (fault-injection variant)
put_enabled_bounded(queue) == Len(queue) < 1

\* error_queue.put in add_error: the queue is made by Queue() with no
\* maxsize and add_error does not take ErrorLogger.lock, so put returns at
\* once whatever the queue holds and whatever the worker is doing
put_enabled(queue) == TRUE

\* One iteration of the row loop: validate_and_collate_row (with its add_error
\* call) and the bookkeeping of collate_and_migrate; after the last row of
\* the chunk, the test 'if valid_data'
ValidateRow ==
    /\ pc = "validate"
    /\ put_enabled(error_queue)
    /\ \E row \in {df[row_pos]} :
       \E r \in {validate_and_collate_row(row, metadata, price_details)} :
           /\ valid_data' = IF r.ok THEN Append(valid_data, r.data) ELSE valid_data
           /\ results' = IF r.ok THEN results
                         ELSE [results EXCEPT !.validation_failures = @ + 1]
           /\ validation_errors' =
                  IF r.ok THEN validation_errors
                  ELSE Append(validation_errors,
                              [row_index |-> row.index, product_id |-> row.product_id,
                               errors |-> r.errors])
           /\ error_queue' = error_queue \o r.records
           /\ enqueued' = enqueued \o r.records
           /\ skipped_no_metadata' = skipped_no_metadata + r.no_metadata
           /\ skipped_no_pricing' = skipped_no_pricing + r.no_pricing
           /\ validated' = validated \cup {row.index}
           /\ accepted' = IF r.ok THEN accepted \cup {row.index} ELSE accepted
    /\ row_pos' = row_pos + 1
    /\ IF row_pos < chunk_end
       THEN /\ pc' = "validate"
            /\ UNCHANGED << chunk_start, lookup_failed >>
       ELSE IF valid_data' # <<>>
       THEN /\ pc' = "insert"
            /\ UNCHANGED << chunk_start, lookup_failed >>
       ELSE /\ chunk_start' = chunk_start + BatchSize
            /\ pc' = LoopAt(chunk_start', df)
            /\ lookup_failed' = FALSE
    /\ UNCHANGED << csv, catalogue, run, df, connection, erp_connection, metadata,
                    price_details, insert_ok, faulted >>
    /\ UNCHANGED << stop_event, wpc, witem, error_rows, error_file >>

\* A batch that is reset only after a committed insert (fault-injection variant)
reset_batch_when_inserted(inserted, batch) == IF inserted THEN <<>> ELSE batch

\* 'valid_data = []  # Reset batch', after a committed and after a failed insert
reset_batch(inserted, batch) == <<>>

\* A commit counted as one insert whatever the batch holds (fault-injection
\* variant)
inserted_count_per_batch(batch) == 1

\* 'results['successful_inserts'] += len(valid_data)'
inserted_count(batch) == Len(batch)

\* insert_batch and the bookkeeping after it.  The batch commits, or it fails
\* and is rolled back, or it fails and the rollback raises as well, which
\* ends collate_and_migrate in its 'except' clause
InsertBatch ==
    /\ pc = "insert"
    /\ \/ /\ catalogue' = catalogue \o valid_data
          /\ insert_ok' = "True"
          /\ results' = [results EXCEPT
                             !.successful_inserts = @ + inserted_count(valid_data)]
          /\ valid_data' = reset_batch(TRUE, valid_data)
          /\ chunk_start' = chunk_start + BatchSize
          /\ pc' = LoopAt(chunk_start', df)
          /\ UNCHANGED << connection, erp_connection, faulted >>
       \/ /\ insert_ok' = "False"
          /\ results' = WithError(results, "Failed to insert batch")
          /\ valid_data' = reset_batch(FALSE, valid_data)
          /\ chunk_start' = chunk_start + BatchSize
          /\ pc' = LoopAt(chunk_start', df)
          /\ faulted' = TRUE
          /\ UNCHANGED << catalogue, connection, erp_connection >>
       \/ /\ results' = WithError(results, "Critical error during collation and migration")
          /\ connection' = Disconnected(connection)
          /\ erp_connection' = Disconnected(erp_connection)
          /\ pc' = "done"
          /\ faulted' = TRUE
          /\ insert_ok' = "raised"
          /\ UNCHANGED << catalogue, valid_data, chunk_start >>
    /\ UNCHANGED << csv, run, df, row_pos, metadata, price_details,
                    validation_errors, skipped_no_metadata, skipped_no_pricing >>
    /\ lookup_failed' = FALSE
    /\ UNCHANGED << validated, accepted, enqueued >>
    /\ UNCHANGED logger_vars

\* After the chunk loop: the error report, then ErrorLogger.stop sets the
\* stop event and starts to wait for the worker
StopLogger ==
    /\ pc = "report"
    /\ stop_event' = TRUE
    /\ pc' = "join"
    /\ UNCHANGED << csv, catalogue, run, faulted >>
    /\ UNCHANGED history_vars
    /\ UNCHANGED collator_vars
    /\ UNCHANGED << error_queue, wpc, witem, error_rows, error_file >>

\* logger_thread.join() returns, stop() writes what is left in the queue, and
\* collate_and_migrate returns its results through 'finally'
JoinAndReturn ==
    /\ pc = "join"
    /\ wpc = "exit"
    /\ error_file' = write_all(error_file, error_queue)
    /\ error_queue' = <<>>
    /\ connection' = Disconnected(connection)
    /\ erp_connection' = Disconnected(erp_connection)
    /\ pc' = "done"
    /\ UNCHANGED << csv, catalogue, run, df, results, chunk_start, row_pos, metadata,
                    price_details, valid_data, validation_errors,
                    skipped_no_metadata, skipped_no_pricing, insert_ok, faulted >>
    /\ UNCHANGED history_vars
    /\ UNCHANGED << stop_event, wpc, witem, error_rows >>

\* _process_errors: the loop test holds and error_queue.get returns a record
WorkerGet ==
    /\ wpc = "loop"
    /\ error_queue # <<>>
    /\ witem' = << Head(error_queue) >>
    /\ error_queue' = Tail(error_queue)
    /\ wpc' = "write"
    /\ UNCHANGED << csv, catalogue, run, pc, faulted >>
    /\ UNCHANGED history_vars
    /\ UNCHANGED collator_vars
    /\ UNCHANGED << stop_event, error_rows, error_file >>

\* _process_errors: under the lock, the record is kept and written
WorkerWrite ==
    /\ wpc = "write"
    /\ error_rows' = Append(error_rows, witem[1])
    /\ error_file' = write_to_csv(error_file, witem[1])
    /\ witem' = <<>>
    /\ wpc' = "loop"
    /\ UNCHANGED << csv, catalogue, run, pc, faulted >>
    /\ UNCHANGED history_vars
    /\ UNCHANGED collator_vars
    /\ UNCHANGED << error_queue, stop_event >>

\* A loop that ends as soon as stop is set (fault-injection variant)
keeps_processing_until_stop(stop, queue) == ~stop

\* The loop test of _process_errors:
\* 'not self.stop_event.is_set() or not self.error_queue.empty()'
keeps_processing(stop, queue) == ~stop \/ queue # <<>>

\* _process_errors: the loop test fails (stop is set and the queue is empty)
WorkerExit ==
    /\ wpc = "loop"
    /\ ~keeps_processing(stop_event, error_queue)
    /\ wpc' = "exit"
    /\ UNCHANGED << csv, catalogue, run, pc, faulted >>
    /\ UNCHANGED history_vars
    /\ UNCHANGED collator_vars
    /\ UNCHANGED << error_queue, stop_event, witem, error_rows, error_file >>

\* The script is run a second time on the same file: a new process, with a
\* new DataCollator and ErrorLogger, against the catalogue the first left
Rerun ==
    /\ pc = "done"
    /\ run = 1
    /\ run' = 2
    /\ pc' = "load"
    /\ df' = <<>>
    /\ results' = InitialResults
    /\ connection' = "none"
    /\ erp_connection' = "none"
    /\ chunk_start' = 0
    /\ row_pos' = 0
    /\ metadata' = EmptyMap
    /\ price_details' = EmptyMap
    /\ valid_data' = <<>>
    /\ validation_errors' = <<>>
    /\ skipped_no_metadata' = 0
    /\ skipped_no_pricing' = 0
    /\ insert_ok' = "none"
    /\ error_queue' = <<>>
    /\ stop_event' = FALSE
    /\ wpc' = "loop"
    /\ witem' = <<>>
    /\ error_rows' = <<>>
    /\ error_file' = <<>>
    /\ validated' = {}
    /\ accepted' = {}
    /\ enqueued' = <<>>
    /\ lookup_failed' = FALSE
    /\ UNCHANGED << csv, catalogue, faulted >>

Next ==
    \/ LoadCsv
    \/ ConnectDb
    \/ CheckDuplicates
    \/ CheckExisting
    \/ FetchMetadata
    \/ FetchPrices
    \/ ValidateRow
    \/ InsertBatch
    \/ StopLogger
    \/ JoinAndReturn
    \/ WorkerGet
    \/ WorkerWrite
    \/ WorkerExit

\* One run of the script
Spec == Init /\ [][Next]_vars

NextRerun ==
    \/ Next
    \/ Rerun

\* A run of the script followed by a second run on the same input
SpecRerun == Init /\ [][NextRerun]_vars

\* Input files of three kinds of row: one that can be accepted, one without
\* metadata and one without a price
FairRowKinds ==
    { CsvCell(<<"P", "1">>, <<"X", "1">>, <<"5">>),
      CsvCell(<<"P", "2">>, <<"Z", "9">>, <<"5">>),
      CsvCell(<<"P", "3">>, <<"Z", "9">>, <<"5">>) }

FairInputFiles ==
    UNION { { [i \in 1..n |-> [index |-> i - 1] @@ f[i]] : f \in [1..n -> FairRowKinds] }
            : n \in 0..MaxRows }

InitFair ==
    /\ Init
    /\ csv \in FairInputFiles

\* One run of the script in which the worker thread is scheduled whenever it
\* can take a step, and logger_thread.join() returns once the thread has ended
SpecFair ==
    /\ InitFair
    /\ [][Next]_vars
    /\ WF_vars(WorkerGet)
    /\ WF_vars(WorkerWrite)
    /\ WF_vars(WorkerExit)
    /\ WF_vars(JoinAndReturn)

\* main, after collate_and_migrate has returned: the summary is printed and
\* main returns, whatever the summary's error list holds; the interpreter
\* then ends with status 0
ExitStatus(res) == 0

\* ------------------------------------------------ the price lookup alone
\* Item codes that differ from the price records' codes in letter case, in
\* the column they match, or not at all
PriceCodeKinds ==
    { <<"X", "1">>, <<"x", "1">>, <<"Y", "1">>, <<"y", "1">>, <<"Z", "9">>,
      <<"W", "2">> }

\* The product_id of the row at position i: distinct ids, so that no row is a
\* duplicate
PriceRowId(i) == << "P", << "1", "2", "3", "4", "5", "6", "7", "8", "9" >>[i] >>

PriceInputFiles ==
    UNION { { [i \in 1..n |-> [index |-> i - 1, product_id |-> PriceRowId(i),
                               item_code |-> f[i], store_inventory |-> <<"5">>,
                               location |-> NaN]]
              : f \in [1..n -> PriceCodeKinds] }
            : n \in 1..MaxRows }

\* collate_and_migrate about to call get_price_details_batch for the first
\* chunk: the file is loaded, both connections are open, no row was a
\* duplicate or in the (empty) catalogue, the metadata of the chunk is fetched
InitPrices ==
    /\ csv \in PriceInputFiles
    /\ catalogue = <<>>
    /\ run = 1
    /\ pc = "prices"
    /\ df = csv
    /\ results = [InitialResults EXCEPT !.total_rows = Len(csv)]
    /\ connection = "open"
    /\ erp_connection = "open"
    /\ chunk_start = 0
    /\ row_pos = 0
    /\ metadata = get_metadata_batch(
                      [i \in 1..Min(BatchSize, Len(csv)) |-> csv[i].product_id])
    /\ price_details = EmptyMap
    /\ valid_data = <<>>
    /\ validation_errors = <<>>
    /\ skipped_no_metadata = 0
    /\ skipped_no_pricing = 0
    /\ insert_ok = "none"
    /\ error_queue = <<>>
    /\ stop_event = FALSE
    /\ wpc = "loop"
    /\ witem = <<>>
    /\ error_rows = <<>>
    /\ error_file = <<>>
    /\ validated = {}
    /\ accepted = {}
    /\ enqueued = <<>>
    /\ lookup_failed = FALSE
    /\ faulted = FALSE

NextPrices == FetchPrices

\* One call of get_price_details_batch, on the item codes of a chunk
SpecPrices == InitPrices /\ [][NextPrices]_vars

\* ------------------------------------------------- the validator alone
\* pd.read_csv with na_values=['', 'NULL', 'null', 'None', 'nan']: a cell
\* whose text is a null spelling is read as a missing value
NaValues == { <<>>, <<"n", "a", "n">> }

read_csv_cell(text) == IF text \in NaValues THEN NaN ELSE text

\* Location names: plain, with a blank to trim, spelt like a null, blank only
LocationTokens == { <<"A">>, <<"B">>, <<" ", "A">>, <<"n", "a", "n">>, <<" ">> }

TokenLists == UNION { [1..n -> LocationTokens] : n \in 1..MaxTokens }

\* sep.join(items)
RECURSIVE Join(_, _)
Join(items, sep) ==
    IF items = <<>> THEN <<>>
    ELSE IF Len(items) = 1 THEN items[1]
    ELSE items[1] \o << sep >> \o Join(Tail(items), sep)

\* The three ways a Location cell spells a list of locations
JsonEncoding(tokens) ==
    <<"[">> \o Join([i \in 1..Len(tokens) |-> << Quote >> \o tokens[i] \o << Quote >>], ",")
            \o <<"]">>

CommaEncoding(tokens) == Join(tokens, ",")

BraceEncoding(tokens) == <<"{">> \o CommaEncoding(tokens) \o <<"}">>

Encodings == {"json", "comma", "brace"}

Encoded(encoding, tokens) ==
    CASE encoding = "json" -> JsonEncoding(tokens)
      [] encoding = "comma" -> CommaEncoding(tokens)
      [] encoding = "brace" -> BraceEncoding(tokens)

\* Texts of a Store Inventory cell: blank, whole, negative, not a number,
\* fractional, a negative fraction, infinite, padded with a blank
InventoryTexts ==
    { <<>>, <<"5">>, <<"-", "1">>, <<"x">>, <<"2", ".", "7">>, <<"-", "0", ".", "5">>,
      <<"i", "n", "f">>, <<" ", "7">> }

\* A row with a metadata and a pricing match, with the cells given
MatchedCsvRow(store_inventory, location) ==
    [index |-> 0, product_id |-> <<"P", "3">>, item_code |-> <<"X", "1">>,
     store_inventory |-> read_csv_cell(store_inventory),
     location |-> read_csv_cell(location)]

ValidatorInputFiles ==
    { << MatchedCsvRow(<<"5">>, Encoded(e, t)) >> : e \in Encodings, t \in TokenLists }
        \cup { << MatchedCsvRow(i, <<>>) >> : i \in InventoryTexts }
        \cup { << MatchedCsvRow(<<"5">>, <<"[", "]">>) >> }

\* collate_and_migrate about to validate the only row of a one-row file: the
\* file is loaded, both connections are open, the row is no duplicate and not
\* in the (empty) catalogue, and both lookups of its chunk have succeeded
InitValidate ==
    /\ csv \in ValidatorInputFiles
    /\ catalogue = <<>>
    /\ run = 1
    /\ pc = "validate"
    /\ df = csv
    /\ results = [InitialResults EXCEPT !.total_rows = Len(csv)]
    /\ connection = "open"
    /\ erp_connection = "open"
    /\ chunk_start = 0
    /\ row_pos = 1
    /\ metadata = get_metadata_batch(<< csv[1].product_id >>)
    /\ price_details \in get_price_details_batch(<< csv[1].item_code >>)
    /\ valid_data = <<>>
    /\ validation_errors = <<>>
    /\ skipped_no_metadata = 0
    /\ skipped_no_pricing = 0
    /\ insert_ok = "none"
    /\ error_queue = <<>>
    /\ stop_event = FALSE
    /\ wpc = "loop"
    /\ witem = <<>>
    /\ error_rows = <<>>
    /\ error_file = <<>>
    /\ validated = {}
    /\ accepted = {}
    /\ enqueued = <<>>
    /\ lookup_failed = FALSE
    /\ faulted = FALSE

NextValidate == ValidateRow

\* One call of validate_and_collate_row, on a row that has both lookups
SpecValidate == InitValidate /\ [][NextValidate]_vars

\* ================================================================ claims

Counted ==
    results.successful_inserts + results.validation_failures
        + results.duplicate_failures + results.existing_products

\* collate_and_migrate has left the chunk loop normally
ChunksProcessed == pc \in {"report", "join"} \/ (pc = "done" /\ stop_event)

\* C1: once every chunk has been processed, successful_inserts +
\* validation_failures + duplicate_failures + existing_products equals
\* total_rows.
C1_CountersAddUp == ChunksProcessed => Counted = results.total_rows

\* An identifier cell that is missing, or empty once trimmed
Absent(cell) == cell = NaN \/ Strip(cell) = <<>>

MissingIdentifier(row) == Absent(row.product_id) \/ Absent(row.item_code)

\* Every row of the input has both identifiers
IdentifiersPresent == \A i \in 1..Len(csv) : ~MissingIdentifier(csv[i])

\* C2: a second run on the same input inserts nothing: its successful_inserts
\* stays 0 (every insert adds to it, so the catalogue gets no new row).
\* Stated for the runs the claim is surest of: every row has both
\* identifiers and no store call fails in either run.
C2_SecondRunInsertsNothing ==
    (run = 2 /\ ~faulted /\ IdentifiersPresent) => results.successful_inserts = 0

\* C3: the catalogue holds at most one record per product_id (the value
\* written, that is the trimmed identifier).  Stated for the runs the claim
\* is surest of: every row has both identifiers and no store call fails.
C3_AtMostOneRecordPerProductId ==
    (~faulted /\ IdentifiersPresent) =>
        \A i, j \in 1..Len(catalogue) :
            catalogue[i].product_id = catalogue[j].product_id => i = j

\* C4: every row waiting for, or handed to, insert_batch has its product_id
\* among the keys the metadata resolver returned for its chunk and its item
\* code among the keys the price resolver returned for its chunk.
C4_InsertedRowsHaveBothLookups ==
    \A i \in 1..Len(valid_data) :
        /\ valid_data[i].product_id \in DOMAIN metadata
        /\ valid_data[i].dist_item_code \in DOMAIN price_details

\* A chunk of two rows of which one was accepted and one rejected is about
\* to be written.
C4_Witness ==
    /\ pc = "insert"
    /\ Len(valid_data) = 1
    /\ row_pos = chunk_start + 3
    /\ Cardinality(validated \ accepted) = 1

\* C5: no input row whose product_id or item_code is missing or empty after
\* trimming is accepted by validate_and_collate_row (so none reaches
\* insert_batch).  Stated for the runs in which no store call fails.
C5_MissingIdentifierNeverAccepted ==
    ~faulted =>
        \A i \in 1..Len(csv) : MissingIdentifier(csv[i]) => csv[i].index \notin accepted

\* The row being validated has non-empty identifiers and both lookups of its
\* chunk hold a match for it
MatchedRow(row) ==
    /\ ~MissingIdentifier(row)
    /\ Strip(Str(row.product_id)) \in DOMAIN metadata
    /\ Strip(Str(row.item_code)) \in DOMAIN price_details

\* C6: a row with non-empty identifiers, a metadata match and a pricing match
\* is accepted by its validation step and not counted as a validation
\* failure, whatever its inventory cell holds.
C6_MatchedRowAccepted ==
    [][(pc = "validate" /\ row_pos' = row_pos + 1 /\ MatchedRow(df[row_pos]))
          => /\ df[row_pos].index \in accepted'
             /\ results'.validation_failures = results.validation_failures]_vars

\* C7: every rejected row has put exactly one Rejection Record on the queue:
\* the records accepted by add_error are as many as the validation failures.
C7_OneRecordPerRejectedRow == Len(enqueued) = results.validation_failures

\* The data lines of the rejection file
DataLines(file) == IF file = <<>> THEN <<>> ELSE Tail(file)

\* C8: when collate_and_migrate has returned, every record add_error accepted
\* is in the rejection file and none is left in the queue or in the worker's
\* hands.
C8_AllRecordsWrittenAtReturn ==
    pc = "done" =>
        /\ error_queue = <<>>
        /\ witem = <<>>
        /\ DataLines(error_file) = [i \in 1..Len(enqueued) |-> CsvLine(enqueued[i])]

\* The step in which insert_batch returns False
InsertFailedStep == pc = "insert" /\ pc' # "insert" /\ insert_ok' = "False"

IsFirst(i) == \A j \in 1..(i - 1) : csv[j].product_id # csv[i].product_id

\* C10: after duplicate elimination the dataframe holds exactly the first row
\* of each product_id, in input order; and only such rows are in the
\* dataframe for the rest of the processing or are ever handed to validation
\* (which is the only way to the Writer and to the Recorder).
C10_FirstOccurrencesKept ==
    /\ pc = "existing" =>
          /\ \A i \in 1..Len(csv) : IsFirst(i) <=> csv[i] \in Range(df)
          /\ \A a, b \in 1..Len(df) : a < b => df[a].index < df[b].index
    /\ pc \in {"existing", "metadata", "prices", "validate", "insert", "report", "join"} =>
          \A a \in 1..Len(df) : IsFirst(df[a].index + 1)
    /\ \A x \in validated : IsFirst(x + 1)

\* Three rows, the second a duplicate of the first: the first and the third
\* were validated, the second was not.
C10_Witness ==
    /\ Len(csv) = 3
    /\ csv[1].product_id = csv[2].product_id
    /\ csv[1].item_code # csv[2].item_code
    /\ validated = {0, 2}
    /\ pc = "done"

\* C11: the duplicate_failures counter equals the number of rows that
\* duplicate elimination removed (k rows sharing a product_id contribute
\* k - 1); read when the duplicate step has just run.
C11_DuplicateFailuresCountRemoved ==
    pc = "existing" => results.duplicate_failures = Len(csv) - Len(df)

\* The row under validation has both identifiers and no metadata match
NoMetadataRow(row) ==
    /\ ~MissingIdentifier(row)
    /\ Strip(row.product_id) \notin DOMAIN metadata

\* C12: validating a row with non-empty product_id and item_code whose
\* product_id has no metadata match enqueues exactly one Rejection Record,
\* with error_type 'Missing Metadata', status 'Skipped' and an empty name,
\* adds 1 to skipped_no_metadata, leaves skipped_no_pricing and
\* successful_inserts as they were, and does not add the row to the batch.
C12_MissingMetadataRecorded ==
    [][(pc = "validate" /\ row_pos' = row_pos + 1 /\ NoMetadataRow(df[row_pos])) =>
          /\ Len(error_queue') = Len(error_queue) + 1
          /\ SubSeq(error_queue', 1, Len(error_queue)) = error_queue
          /\ \E rec \in {error_queue'[Len(error_queue')]} :
                /\ rec.product_id = Strip(df[row_pos].product_id)
                /\ rec.item_code = Strip(df[row_pos].item_code)
                /\ rec.name = <<>>
                /\ rec.error_type = <<"Missing Metadata">>
                /\ rec.status = <<"Skipped">>
          /\ Len(enqueued') = Len(enqueued) + 1
          /\ skipped_no_metadata' = skipped_no_metadata + 1
          /\ skipped_no_pricing' = skipped_no_pricing
          /\ results'.successful_inserts = results.successful_inserts
          /\ valid_data' = valid_data
          /\ df[row_pos].index \notin accepted'
          /\ catalogue' = catalogue]_vars

\* A row without metadata was validated after the worker had taken an
\* earlier record: its record is in the queue and the counter is 1.
C12_Witness ==
    /\ skipped_no_metadata = 1
    /\ skipped_no_pricing = 0
    /\ Len(error_queue) = 1
    /\ error_queue[1].error_type = <<"Missing Metadata">>
    /\ error_queue[1].product_id = <<"P", "2">>
    /\ results.validation_failures = 1

\* A row of a chunk one of whose lookups failed is being validated
FailedLookupRowStep == lookup_failed /\ pc = "validate" /\ row_pos' = row_pos + 1

\* C13: a failed reference lookup does not end the run: the resolver's result
\* is the empty mapping and the orchestrator goes on to validate the chunk;
\* every row of that chunk is rejected and counted as a validation failure,
\* nothing of it is written, and after its last row the run goes on to the
\* next chunk (or to the report when it was the last).
C13_FailedLookupRejectsChunk ==
    /\ [](lookup_failed =>
             /\ pc \in {"prices", "validate"}
             /\ metadata = EmptyMap \/ (pc = "validate" /\ price_details = EmptyMap)
             /\ valid_data = <<>>
             /\ connection = "open" /\ erp_connection = "open")
    /\ [][FailedLookupRowStep =>
             /\ df[row_pos].index \notin accepted'
             /\ results'.validation_failures = results.validation_failures + 1
             /\ results'.errors = results.errors
             /\ valid_data' = <<>>
             /\ catalogue' = catalogue
             /\ pc' = IF row_pos < chunk_end THEN "validate"
                      ELSE LoopAt(chunk_start + BatchSize, df)]_vars

\* The metadata query of a chunk failed, the price query succeeded and found
\* a record; the first of the chunk's two rows has been rejected.
C13_Witness ==
    /\ lookup_failed
    /\ pc = "validate"
    /\ row_pos = chunk_start + 2
    /\ price_details # EmptyMap
    /\ results.validation_failures = 1
    /\ accepted = {}

\* The caller's key, lowercased, is the lowercased canonical or alternate
\* code of the price record
KeyMatches(key, record) ==
    \/ Lower(key) = Lower(record.item_code)
    \/ Lower(key) = Lower(record.original_item_code)

\* C14: after a successful get_price_details_batch, the result has an entry
\* under a caller's (trimmed, original-cased) key exactly when the key matches
\* some price record through either code column, whatever else is in the
\* batch, and the entry is that record's data, the same through either column.
C14_PriceResolvedUnderCallerKey ==
    (pc = "validate" /\ ~lookup_failed) =>
        \A key \in Range(item_codes_chunk) :
            /\ key \in DOMAIN price_details <=>
                   \E record \in Range(distributor_master_list) : KeyMatches(key, record)
            /\ key \in DOMAIN price_details =>
                   \E record \in Range(distributor_master_list) :
                       /\ KeyMatches(key, record)
                       /\ price_details[key] = PriceEntry(record)

\* No resolver, validator or writer call has been made and the destination
\* store is as it was before the run
NothingProcessed ==
    /\ validated = {}
    /\ accepted = {}
    /\ enqueued = <<>>
    /\ metadata = EmptyMap
    /\ price_details = EmptyMap
    /\ valid_data = <<>>
    /\ insert_ok = "none"
    /\ catalogue \in InitialCatalogues
    /\ results.successful_inserts = 0
    /\ results.validation_failures = 0

\* C15: when the input cannot be read the run ends at once: no connection is
\* opened, nothing is resolved, validated or written, every counter of the
\* summary is 0 and its error list names the load failure.  When connecting
\* to either store fails the run ends likewise with nothing resolved,
\* validated or written and the connect failure named.  A run that ended
\* without the ERP connection ever open is one of these two.
C15_FatalAbortNoPartialRun ==
    /\ [][(pc = "load" /\ pc' = "done") =>
             /\ results' = [InitialResults EXCEPT
                               !.errors = <<"Failed to load CSV file">>]
             /\ connection' = "none" /\ erp_connection' = "none"
             /\ catalogue' = catalogue]_vars
    /\ [][(pc = "connect" /\ pc' = "done") =>
             /\ results' = [InitialResults EXCEPT
                               !.total_rows = Len(csv),
                               !.errors = <<"Failed to connect to database">>]
             /\ connection' # "open" /\ erp_connection' = "none"
             /\ catalogue' = catalogue]_vars
    /\ []((pc = "done" /\ erp_connection = "none") =>
             /\ NothingProcessed
             /\ results.errors \in { <<"Failed to load CSV file">>,
                                     <<"Failed to connect to database">> })

\* A file of two rows could not be read and the run has ended
C15_Witness ==
    /\ pc = "done"
    /\ Len(csv) = 2
    /\ results.errors = <<"Failed to load CSV file">>
    /\ results.total_rows = 0
    /\ connection = "none"

\* The summary names a fatal phase failure
FatalError(res) ==
    \/ "Failed to load CSV file" \in Range(res.errors)
    \/ "Failed to connect to database" \in Range(res.errors)

\* C16: the status the process ends with is non-zero exactly when the run
\* met a fatal phase failure (unreadable input, failed connection).
C16_FatalFailureNonZeroStatus ==
    pc = "done" => (ExitStatus(results) # 0 <=> FatalError(results))

IsSummary(res) ==
    /\ DOMAIN res = {"total_rows", "successful_inserts", "validation_failures",
                     "duplicate_failures", "existing_products", "errors"}
    /\ \A c \in DOMAIN res \ {"errors"} : res[c] \in Nat
    /\ res.errors \in Seq(Range(res.errors))

\* insert_batch has just failed for a chunk (returned False, or raised)
InsertBatchFailedStep == pc = "insert" /\ pc' # "insert" /\ insert_ok' # "True"

\* C18: collate_and_migrate ends only by returning its summary: the pipeline
\* is always at one of its known positions (there is none for an exception
\* leaving it), when it has returned the caller holds the counters and the
\* error list and no connection is left open, and each failed chunk insert
\* adds one entry to the error list, whether the run then goes on or ends.
C18_AlwaysReturnsSummary ==
    /\ [](pc \in {"load", "connect", "duplicates", "existing", "metadata", "prices",
                  "validate", "insert", "report", "join", "done"})
    /\ [](pc = "done" =>
             /\ IsSummary(results)
             /\ connection \in {"none", "closed"}
             /\ erp_connection \in {"none", "closed"})
    /\ [][InsertBatchFailedStep =>
             /\ Len(results'.errors) = Len(results.errors) + 1
             /\ SubSeq(results'.errors, 1, Len(results.errors)) = results.errors
             /\ results'.successful_inserts = results.successful_inserts]_vars
    /\ [][(pc # "done" /\ pc' = "done" /\ connection = "open") =>
             connection' = "closed" /\ erp_connection' = "closed"]_vars

\* A run that ended through the 'except' clause after one committed chunk,
\* with both connections closed and the failure in the error list
C18_Witness ==
    /\ pc = "done"
    /\ insert_ok = "raised"
    /\ results.successful_inserts > 0
    /\ results.validation_failures > 0
    /\ connection = "closed"
    /\ erp_connection = "closed"
    /\ "Critical error during collation and migration" \in Range(results.errors)

\* The tokens of a list, each trimmed
Trimmed(tokens) == [i \in 1..Len(tokens) |-> Strip(tokens[i])]

\* The validated row's Location cell spells the token list in the encoding
LocationCellIs(encoding, tokens) ==
    /\ pc = "insert"
    /\ csv[1].store_inventory = <<"5">>
    /\ csv[1].location = read_csv_cell(Encoded(encoding, tokens))

\* C19 as stated: for every list of non-empty tokens, its JSON array, its
\* comma-separated and its brace-wrapped spelling all normalize to the
\* sequence of the trimmed tokens (so to the same sequence), a single bare
\* token to a one-element sequence.
C19_EncodingsAgree ==
    \A tokens \in TokenLists : \A encoding \in Encodings :
        LocationCellIs(encoding, tokens) =>
            valid_data[1].location = LocationList(Trimmed(tokens))

\* The tokens the three spellings agree on: not blank after trimming
ProperTokens(tokens) == \A i \in 1..Len(tokens) : Strip(tokens[i]) # <<>>

\* The bare text 'nan', which is read as a missing location
BareNan(encoding, tokens) == encoding = "comma" /\ tokens = << <<"n", "a", "n">> >>

\* C19 (amended): for every list of tokens that are non-empty after trimming,
\* the three spellings normalize to the sequence of the trimmed tokens, a
\* single bare token to a one-element sequence, except for the bare text
\* 'nan', which means a missing location.
C19_EncodingsAgreeOnProperTokens ==
    \A tokens \in TokenLists : \A encoding \in Encodings :
        (LocationCellIs(encoding, tokens) /\ ProperTokens(tokens)
            /\ ~BareNan(encoding, tokens)) =>
                valid_data[1].location = LocationList(Trimmed(tokens))

\* The brace-wrapped spelling of two locations, one with a blank to trim, has
\* been normalized to the two trimmed tokens
C19_Witness ==
    /\ pc = "insert"
    /\ csv[1].location = <<"{", " ", "A", ",", "B", "}">>
    /\ valid_data[1].location = LocationList(<< <<"A">>, <<"B">> >>)

\* What C20 expects for the inventory texts: the floor of a value that is not
\* negative, 0 for every other text
ExpectedQuantity(text) ==
    CASE text = <<"5">> -> 5
      [] text = <<"2", ".", "7">> -> 2
      [] text = <<" ", "7">> -> 7
      [] OTHER -> 0

\* C20: for every Store Inventory cell of a validated row,
\* _validate_inventory_quantity has returned an integer >= 0: 0 for a blank, an unparseable or a negative value, the
\* floor of any other value; and the accepted row with a blank Store
\* Inventory has inventory_quantity 0 in its merged record.
C20_InventoryQuantityNormalized ==
    /\ \A text \in InventoryTexts :
           (validated = {0} /\ csv[1].store_inventory = read_csv_cell(text)) =>
               /\ ~validate_inventory_quantity(csv[1].store_inventory).raised
               /\ validate_inventory_quantity(csv[1].store_inventory).qty \in Nat
               /\ validate_inventory_quantity(csv[1].store_inventory).qty
                      = ExpectedQuantity(text)
    /\ (pc = "insert" /\ csv[1].store_inventory = NaN) =>
           valid_data[1].inventory_quantity = 0

\* The last row position of the current chunk, from the loop header
LastRowOfChunk == Min(chunk_start + BatchSize, Len(df))

RowsOfChunk == SubSeq(df, chunk_start + 1, LastRowOfChunk)

\* The collated rows of the current chunk's rows whose index is in acc
AcceptedOfChunk(acc) ==
    LET rows == SelectSeq(RowsOfChunk, LAMBDA r : r.index \in acc)
    IN  [i \in 1..Len(rows) |->
            validate_and_collate_row(rows[i], metadata, price_details).data]

\* The chunk before the current one is over: its insert committed or was
\* rolled back, or its last row was validated and no row was accepted
ChunkOverStep ==
    \/ pc = "insert" /\ insert_ok' \in {"True", "False"}
    \/ pc = "validate" /\ row_pos = LastRowOfChunk /\ valid_data' = <<>>

\* C21: chunks are processed one after another, and within a chunk the
\* metadata fetch comes once, then the price fetch once, then every row of
\* the chunk is validated against these two mappings, then insert_batch is
\* called once if and only if a row was accepted, with exactly the chunk's
\* accepted rows; the next chunk starts only after the insert has committed
\* or was rolled back
C21_ChunkEventsInOrder ==
    [][ /\ (pc' = "metadata" /\ pc # "metadata") =>
              \/ pc = "existing" /\ chunk_start' = 0
              \/ ChunkOverStep /\ chunk_start' = chunk_start + BatchSize
        /\ (chunk_start' # chunk_start) =>
              ChunkOverStep /\ chunk_start' = chunk_start + BatchSize
        /\ (pc = "metadata" /\ pc' # pc) =>
              /\ pc' = "prices"
              /\ valid_data = <<>>
              /\ \A i \in 1..Len(RowsOfChunk) : RowsOfChunk[i].index \notin validated
              /\ UNCHANGED << chunk_start, validated, catalogue >>
        /\ (pc' = "prices" /\ pc # "prices") => pc = "metadata"
        /\ (pc = "prices" /\ pc' # pc) =>
              /\ pc' = "validate"
              /\ row_pos' = chunk_start + 1
              /\ valid_data = <<>>
              /\ UNCHANGED << chunk_start, metadata, validated, catalogue >>
        /\ (pc' = "validate" /\ pc # "validate") => pc = "prices"
        /\ (pc = "validate" /\ row_pos' # row_pos) =>
              /\ row_pos \in (chunk_start + 1)..LastRowOfChunk
              /\ df[row_pos].index \notin validated
              /\ validated' = validated \cup {df[row_pos].index}
              /\ row_pos' = row_pos + 1
              /\ UNCHANGED << metadata, price_details, catalogue >>
              /\ valid_data' = AcceptedOfChunk(accepted')
              /\ row_pos < LastRowOfChunk => pc' = "validate"
              /\ row_pos = LastRowOfChunk =>
                    IF valid_data' # <<>>
                    THEN pc' = "insert" /\ UNCHANGED chunk_start
                    ELSE pc' \in {"metadata", "report"}
        /\ (validated' # validated) => (pc = "validate" /\ row_pos' # row_pos)
        /\ (pc' = "insert" /\ pc # "insert") =>
              /\ pc = "validate"
              /\ row_pos = LastRowOfChunk
        /\ (pc = "insert" /\ pc' # pc) =>
              /\ valid_data # <<>>
              /\ valid_data = AcceptedOfChunk(accepted)
              /\ \A i \in 1..Len(RowsOfChunk) : RowsOfChunk[i].index \in validated
              /\ \/ insert_ok' = "True" /\ catalogue' = catalogue \o valid_data
                 \/ insert_ok' \in {"False", "raised"} /\ UNCHANGED catalogue
              /\ insert_ok' \in {"True", "False"} =>
                    valid_data' = <<>> /\ pc' \in {"metadata", "report"}
              /\ insert_ok' = "raised" => pc' = "done"
        /\ (catalogue' # catalogue) => pc = "insert"
      ]_vars

\* The second chunk is at its insert after the first chunk's insert committed
C21_Witness ==
    /\ pc = "insert"
    /\ chunk_start = BatchSize
    /\ insert_ok = "True"
    /\ valid_data # <<>>
    /\ results.successful_inserts > 0

\* C22: once stop is set the worker leaves its loop only when the queue is
\* empty and nothing is in its hands, it has then written every record that
\* was enqueued, and under fair scheduling the worker ends and stop() returns
C22_WorkerDrainsThenTerminates ==
    /\ [][ (wpc' = "exit" /\ wpc # "exit") =>
              /\ stop_event
              /\ error_queue = <<>>
              /\ witem = <<>>
              /\ error_rows = enqueued
              /\ DataLines(error_file) = [i \in 1..Len(enqueued) |-> CsvLine(enqueued[i])]
         ]_vars
    /\ [][ (stop_event /\ wpc = "loop" /\ error_queue # <<>> /\ wpc' # wpc) =>
              /\ wpc' = "write"
              /\ witem' = << Head(error_queue) >>
         ]_vars
    /\ (stop_event ~> (wpc = "exit"))
    /\ (stop_event ~> (pc = "done" /\ wpc = "exit" /\ error_queue = <<>>))

\* Stop is set while records wait in the queue, and the worker has ended
\* after it wrote them
C22_Witness ==
    /\ wpc = "exit"
    /\ stop_event
    /\ Len(error_rows) = 3
    /\ pc = "done"

\* The header row the rejection file is to start with
SinkColumns ==
    << <<"product_id">>, <<"item_code">>, <<"name">>, <<"error_timestamp">>,
       <<"error_type">>, <<"error_details">>, <<"status">> >>

\* The file after the records recs were appended to it, the first of them
\* creating it with the header row
SinkAfter(file, recs) ==
    (IF file = <<>> /\ recs # <<>> THEN << SinkColumns >> ELSE file)
        \o [i \in 1..Len(recs) |-> CsvLine(recs[i])]

\* C23: the rejection file does not exist before the first record is written,
\* the first write creates it with the header row in the fixed column order,
\* every later write appends data rows only, and the worker and stop() never
\* write at the same time: stop() writes only after the worker has ended
C23_HeaderWrittenOnce ==
    /\ [] /\ (error_file = <<>>) <=> (error_rows = <<>>)
          /\ error_file # <<>> =>
                /\ error_file[1] = SinkColumns
                /\ \A i \in 2..Len(error_file) :
                      /\ error_file[i] # SinkColumns
                      /\ Len(error_file[i]) = Len(SinkColumns)
                      /\ error_file[i][7] = Skipped
                /\ Len(error_file) = Len(error_rows) + 1
          /\ ~(wpc = "write" /\ pc = "done" /\ stop_event)
    /\ [][ (error_file' # error_file) =>
              \/ /\ wpc = "write"
                 /\ wpc' = "loop"
                 /\ pc' = pc
                 /\ error_file' = SinkAfter(error_file, witem)
              \/ /\ pc = "join"
                 /\ wpc = "exit"
                 /\ wpc' = "exit"
                 /\ error_file' = SinkAfter(error_file, error_queue)
         ]_vars

\* The worker has written a first record, which created the file, and then
\* two more
C23_Witness ==
    /\ Len(error_file) = 4
    /\ Len(error_rows) = 3
    /\ error_file[1] = Header

\* C24: a successful get_price_details_batch returns, for the item codes of
\* the chunk, the mapping it would return for any other order in which the
\* query may deliver the matching records: a second call with the same
\* codes returns the same mapping
C24_PriceResolutionDeterministic ==
    (pc = "validate" /\ ~lookup_failed) =>
        \A other \in get_price_details_batch(item_codes_chunk) : other = price_details

\* The stripped identifiers of the row about to be validated
RowProductId == Strip(Str(df[row_pos].product_id))

RowItemCode == Strip(Str(df[row_pos].item_code))

\* The step validates a row and hands add_error exactly one record, of the
\* given type and name
OneRecordStep(error_type, name) ==
    /\ Len(error_queue') = Len(error_queue) + 1
    /\ SubSeq(error_queue', 1, Len(error_queue)) = error_queue
    /\ Len(enqueued') = Len(enqueued) + 1
    /\ \E rec \in {error_queue'[Len(error_queue')]} :
          /\ rec.error_type = error_type
          /\ rec.name = name
          /\ rec.product_id = RowProductId
          /\ rec.item_code = RowItemCode

\* C25: the checks of a row run in the order identifier, metadata, pricing
\* and stop at the first that fails.  A row without an identifier gets no
\* record and no skip count; a row with neither a metadata nor a pricing match
\* gets one 'Missing Metadata' record and counts in skipped_no_metadata only;
\* a row with metadata and without pricing gets one 'Missing Price Details'
\* record with the name of its metadata; each adds 1 to validation_failures,
\* so the two skip counters together never exceed validation_failures
C25_ChecksOrderedFirstFailureOnly ==
    /\ [](skipped_no_metadata + skipped_no_pricing <= results.validation_failures)
    /\ [][ (pc = "validate" /\ row_pos' = row_pos + 1) =>
              /\ (RowProductId = <<>> \/ RowItemCode = <<>>) =>
                    /\ error_queue' = error_queue
                    /\ enqueued' = enqueued
                    /\ skipped_no_metadata' = skipped_no_metadata
                    /\ skipped_no_pricing' = skipped_no_pricing
                    /\ results'.validation_failures = results.validation_failures + 1
              /\ (/\ RowProductId # <<>>
                  /\ RowItemCode # <<>>
                  /\ RowProductId \notin DOMAIN metadata
                  /\ RowItemCode \notin DOMAIN price_details) =>
                    /\ OneRecordStep(<<"Missing Metadata">>, <<>>)
                    /\ skipped_no_metadata' = skipped_no_metadata + 1
                    /\ skipped_no_pricing' = skipped_no_pricing
                    /\ results'.validation_failures = results.validation_failures + 1
              /\ (/\ RowProductId # <<>>
                  /\ RowItemCode # <<>>
                  /\ RowProductId \in DOMAIN metadata
                  /\ RowItemCode \notin DOMAIN price_details) =>
                    /\ OneRecordStep(<<"Missing Price Details">>,
                                     metadata[RowProductId].name)
                    /\ skipped_no_metadata' = skipped_no_metadata
                    /\ skipped_no_pricing' = skipped_no_pricing + 1
                    /\ results'.validation_failures = results.validation_failures + 1
         ]_vars

\* A row with neither match and a row with metadata only were validated in
\* one chunk whose two lookups succeeded
C25_Witness ==
    /\ ~faulted
    /\ skipped_no_metadata = 1
    /\ skipped_no_pricing = 1
    /\ results.validation_failures = 2
    /\ \E i \in 1..Len(enqueued) :
          /\ enqueued[i].error_type = MissingMetadata
          /\ enqueued[i].item_code = <<"Z", "9">>
    /\ \E i \in 1..Len(enqueued) :
          /\ enqueued[i].error_type = MissingPriceDetails
          /\ enqueued[i].name = <<"N", "3">>

\* A location value as the spec wants it: the explicit 'no location', or a
\* list that is not empty and holds trimmed, non-empty texts only
WellFormedLocation(loc) ==
    \/ loc.none /\ loc.list = <<>>
    \/ /\ ~loc.none
       /\ loc.list # <<>>
       /\ \A i \in 1..Len(loc.list) :
             loc.list[i] # <<>> /\ Strip(loc.list[i]) = loc.list[i]

\* C26: the location _validate_location_array returns for the row is None or
\* a non-empty list of trimmed, non-empty texts, never an empty list, and an
\* empty or nan-like cell adds no error: the row is accepted with location None
C26_LocationNeverEmptySequence ==
    (validated = {0} /\ pc # "validate") =>
        /\ accepted = {0} =>
              \A i \in 1..Len(valid_data) : WellFormedLocation(valid_data[i].location)
        /\ (IsNa(csv[1].location) /\ csv[1].store_inventory = <<"5">>) =>
              /\ accepted = {0}
              /\ valid_data[1].location = NoLocation


\* The rows of the current chunk that were accepted
AcceptedInChunk ==
    { i \in (chunk_start + 1)..Min(chunk_start + BatchSize, Len(df)) :
          df[i].index \in accepted }

\* C27: successful_inserts counts the rows the run has committed to the
\* catalogue.  Every step adds to it what it adds to the catalogue; it grows
\* only when a chunk's insert commits, by the number of the chunk's accepted
\* rows; a rolled-back insert, a validated row, the duplicate check and the
\* existing-product check leave it and the catalogue as they were
C27_SuccessfulInsertsAreCommittedRows ==
    /\ [](pc \in {"load", "connect", "duplicates", "existing"} =>
              results.successful_inserts = 0)
    /\ [][ /\ Len(catalogue') >= Len(catalogue)
           /\ SubSeq(catalogue', 1, Len(catalogue)) = catalogue
           /\ results'.successful_inserts - results.successful_inserts
                  = Len(catalogue') - Len(catalogue)
           /\ (results'.successful_inserts # results.successful_inserts) =>
                 /\ pc = "insert"
                 /\ insert_ok' = "True"
                 /\ results'.successful_inserts - results.successful_inserts
                        = Cardinality(AcceptedInChunk)
                 /\ Cardinality(AcceptedInChunk) > 0
           /\ (pc = "insert" /\ pc' # pc /\ insert_ok' = "True") =>
                 results'.successful_inserts > results.successful_inserts
           /\ (pc = "insert" /\ pc' # pc /\ insert_ok' \in {"False", "raised"}) =>
                 /\ results'.successful_inserts = results.successful_inserts
                 /\ catalogue' = catalogue
           /\ (pc \in {"duplicates", "existing", "validate"}) =>
                 /\ results'.successful_inserts = results.successful_inserts
                 /\ catalogue' = catalogue
         ]_vars

\* The first chunk's two rows were committed and the second chunk's insert
\* was rolled back
C27_Witness ==
    /\ results.successful_inserts = 2
    /\ insert_ok = "False"
    /\ Cardinality(accepted) = 3
    /\ pc = "done"

\* The data rows of the records recs, in their order
LinesOf(recs) == [i \in 1..Len(recs) |-> CsvLine(recs[i])]

====
